---- MODULE Spec2Model ----
(***************************************************************************)
(* Repo2Doc: scan -> filter -> chunk -> generate -> save.                  *)
(* A path or a file name is a sequence of one-character strings, so that   *)
(* lower(), split('/'), basename, splitext and the string order Python     *)
(* sorts by are computed character by character.                          *)
(***************************************************************************)
EXTENDS Integers, Sequences, FiniteSets, TLC

\* ------------------------------------------------------------------------
\* Characters and strings (Python str semantics on the characters used)
\* ------------------------------------------------------------------------
LowerLetters == <<"a","b","c","d","e","f","g","h","i","j","k","l","m",
                  "n","o","p","q","r","s","t","u","v","w","x","y","z">>

UpperLetters == <<"A","B","C","D","E","F","G","H","I","J","K","L","M",
                  "N","O","P","Q","R","S","T","U","V","W","X","Y","Z">>

IndexIn(letters, c) == CHOOSE i \in 1..Len(letters) : letters[i] = c

IsIn(letters, c) == \E i \in 1..Len(letters) : letters[i] = c

\* ord(c): the code point Python compares characters by
Ord(c) ==
    IF IsIn(LowerLetters, c) THEN 96 + IndexIn(LowerLetters, c)
    ELSE IF IsIn(UpperLetters, c) THEN 64 + IndexIn(UpperLetters, c)
    ELSE CASE c = "." -> 46
           [] c = "/" -> 47
           [] c = "-" -> 45
           [] c = "\\" -> 92
           [] c = "_" -> 95

LowerChar(c) ==
    IF IsIn(UpperLetters, c) THEN LowerLetters[IndexIn(UpperLetters, c)] ELSE c

\* str.lower()
StrLower(s) == [i \in 1..Len(s) |-> LowerChar(s[i])]

\* str.replace(a, b) for one-character a and b
StrReplace(s, a, b) == [i \in 1..Len(s) |-> IF s[i] = a THEN b ELSE s[i]]

\* sub in s
StrContains(s, sub) ==
    \E i \in 0..(Len(s) - Len(sub)) : SubSeq(s, i + 1, i + Len(sub)) = sub

\* positions of character c in s
Positions(s, c) == {i \in 1..Len(s) : s[i] = c}

Max(S) == CHOOSE x \in S : \A y \in S : y <= x

RECURSIVE StrSplit(_, _)
\* str.split(sep) for a one-character sep
StrSplit(s, sep) ==
    IF Positions(s, sep) = {} THEN <<s>>
    ELSE LET i == Max(Positions(s, sep))
         IN  Append(StrSplit(SubSeq(s, 1, i - 1), sep), SubSeq(s, i + 1, Len(s)))

\* os.path.basename (posixpath): what follows the last '/'
Basename(p) ==
    IF Positions(p, "/") = {} THEN p
    ELSE SubSeq(p, Max(Positions(p, "/")) + 1, Len(p))

\* os.path.splitext(name)[0] for a name without '/': cut at the last dot,
\* unless that dot is among the leading dots of the name
SplitextRoot(name) ==
    LET dots == Positions(name, ".")
    IN  IF dots = {} THEN name
        ELSE LET d == Max(dots)
             IN  IF \A i \in 1..d : name[i] = "." THEN name
                 ELSE SubSeq(name, 1, d - 1)

\* pathlib.PurePath.suffix of the final component
PathSuffix(p) ==
    LET name == Basename(p)
        dots == Positions(name, ".")
    IN  IF dots = {} THEN <<>>
        ELSE LET d == Max(dots)
             IN  IF d = 1 \/ d = Len(name) THEN <<>>
                 ELSE SubSeq(name, d, Len(name))

\* get_file_extension
get_file_extension(p) == StrLower(PathSuffix(p))

\* the code points of a string: the key Python compares strings by
Codes(s) == [i \in 1..Len(s) |-> Ord(s[i])]

RECURSIVE KeyLess(_, _)
\* a < b for two sort keys (tuples of integers followed by code points),
\* compared left to right as Python compares tuples and strings
KeyLess(a, b) ==
    IF a = <<>> THEN b # <<>>
    ELSE IF b = <<>> THEN FALSE
    ELSE IF a[1] # b[1] THEN a[1] < b[1]
    ELSE KeyLess(Tail(a), Tail(b))

Range(s) == {s[i] : i \in 1..Len(s)}

\* x put into the sorted list at the place a stable sort gives it: after
\* every element whose key is not greater
InsertByKey(sorted, x, key) ==
    LET n == Cardinality({i \in 1..Len(sorted) : ~KeyLess(key[x], key[sorted[i]])})
    IN  SubSeq(sorted, 1, n) \o <<x>> \o SubSeq(sorted, n + 1, Len(sorted))

RECURSIVE SortedBy(_, _)
\* sorted(s, key=...) / list.sort(key=...): a stable sort by key[x]
SortedBy(s, key) ==
    IF s = <<>> THEN <<>>
    ELSE InsertByKey(SortedBy(SubSeq(s, 1, Len(s) - 1), key), s[Len(s)], key)

\* ------------------------------------------------------------------------
\* Files
\* ------------------------------------------------------------------------
\* A list of the program holds references to FileInfo objects (state.py); a
\* reference is the name below, and FileTable gives the object's fields:
\* path as characters, text as the same path in one string, size in bytes,
\* token_count as count_tokens gave it for the content at scan time.
FileTable ==
    [README_md |->
        [path |-> <<"R","E","A","D","M","E",".","m","d">>,
         text |-> "README.md", content |-> "intro", size |-> 5, token_count |-> 50],
     readme_md |->
        [path |-> <<"r","e","a","d","m","e",".","m","d">>,
         text |-> "readme.md", content |-> "", size |-> 0, token_count |-> 0],
     package_json |->
        [path |-> <<"p","a","c","k","a","g","e",".","j","s","o","n">>,
         text |-> "package.json", content |-> "deps", size |-> 4, token_count |-> 80],
     main_py |->
        [path |-> <<"m","a","i","n",".","p","y">>,
         text |-> "main.py", content |-> "run", size |-> 3, token_count |-> 120],
     src_index_js |->
        [path |-> <<"s","r","c","/","i","n","d","e","x",".","j","s">>,
         text |-> "src/index.js", content |-> "idx", size |-> 3, token_count |-> 120],
     src_util_js |->
        [path |-> <<"s","r","c","/","u","t","i","l",".","j","s">>,
         text |-> "src/util.js", content |-> "util", size |-> 4, token_count |-> 50],
     src_a_util_js |->
        [path |-> <<"s","r","c","/","a","/","u","t","i","l",".","j","s">>,
         text |-> "src/a/util.js", content |-> "big", size |-> 800, token_count |-> 200],
     lib_helpers_js |->
        [path |-> <<"l","i","b","/","h","e","l","p","e","r","s",".","j","s">>,
         text |-> "lib/helpers.js", content |-> "help", size |-> 4, token_count |-> 80],
     app_py |->
        [path |-> <<"a","p","p",".","p","y">>,
         text |-> "app.py", content |-> "app", size |-> 3, token_count |-> 50],
     src_app_index_js |->
        [path |-> <<"s","r","c","/","a","p","p","_","i","n","d","e","x",".","j","s">>,
         text |-> "src/app_index.js", content |-> "both", size |-> 4, token_count |-> 50]]

\* the files of the model
FileUniverse == DOMAIN FileTable

\* the files the repository of a pipeline run may hold
RepoFiles == FileUniverse \ {"app_py", "src_app_index_js"}

\* the files a list handed to the prioritizer on its own may hold
SortFiles == FileUniverse \ {"readme_md"}

PathOf(f) == FileTable[f].path

\* ------------------------------------------------------------------------
\* node3_chunk_files._sort_files_by_priority
\* ------------------------------------------------------------------------
config_names == {
    <<"p","a","c","k","a","g","e",".","j","s","o","n">>,
    <<"p","y","p","r","o","j","e","c","t",".","t","o","m","l">>,
    <<"s","e","t","u","p",".","p","y">>,
    <<"r","e","q","u","i","r","e","m","e","n","t","s",".","t","x","t">>,
    <<"p","o","m",".","x","m","l">>,
    <<"b","u","i","l","d",".","g","r","a","d","l","e">>,
    <<"g","o",".","m","o","d">>,
    <<"C","a","r","g","o",".","t","o","m","l">>,
    <<"t","s","c","o","n","f","i","g",".","j","s","o","n">>,
    <<"w","e","b","p","a","c","k",".","c","o","n","f","i","g",".","j","s">>,
    <<"v","i","t","e",".","c","o","n","f","i","g",".","j","s">>,
    <<".","e","n","v",".","e","x","a","m","p","l","e">>,
    <<"d","o","c","k","e","r","-","c","o","m","p","o","s","e",".","y","m","l">>,
    <<"D","o","c","k","e","r","f","i","l","e">>,
    <<"M","a","k","e","f","i","l","e">>,
    <<"C","M","a","k","e","L","i","s","t","s",".","t","x","t">>
}

entry_patterns == <<
    <<"_","_","i","n","i","t","_","_">>,
    <<"i","n","d","e","x">>,
    <<"m","a","i","n">>,
    <<"a","p","p">>,
    <<"m","o","d">>,
    <<"l","i","b">>
>>

README_WORD == <<"r","e","a","d","m","e">>

\* parts = path.replace('\\', '/').split('/')
PathParts(path) == StrSplit(StrReplace(path, "\\", "/"), "/")

\* filename = parts[-1].lower()
LowerFilename(path) ==
    LET parts == PathParts(path) IN StrLower(parts[Len(parts)])

\* is_root = len(parts) == 1
IsRoot(path) == Len(PathParts(path)) = 1

\* module_name = parts[0]
ModuleName(path) == PathParts(path)[1]

\* the four-way classification made by the loop over the files
Category(f) ==
    IF IsRoot(PathOf(f))
    THEN IF StrContains(LowerFilename(PathOf(f)), README_WORD) THEN "readme"
         ELSE IF LowerFilename(PathOf(f)) \in {StrLower(n) : n \in config_names}
              THEN "root_config"
              ELSE "root_other"
    ELSE "module"

\* file_priority as it would be if the last entry pattern the name contains
\* gave the rank
file_priority_LastPattern(f) ==
    LET filename == StrLower(Basename(PathOf(f)))
        name_without_ext == SplitextRoot(filename)
        hits == {i \in 1..Len(entry_patterns) :
                    StrContains(name_without_ext, entry_patterns[i])}
    IN  IF hits # {}
        THEN <<0, Max(hits) - 1>> \o Codes(filename)
        ELSE <<1, 0>> \o Codes(filename)

\* file_priority(f): (0, i, filename) for the first entry pattern the name
\* without extension contains, (1, 0, filename) otherwise
file_priority(f) ==
    LET filename == StrLower(Basename(PathOf(f)))
        name_without_ext == SplitextRoot(filename)
        hits == {i \in 1..Len(entry_patterns) :
                    StrContains(name_without_ext, entry_patterns[i])}
    IN  IF hits # {}
        THEN <<0, (CHOOSE i \in hits : \A j \in hits : i <= j) - 1>> \o Codes(filename)
        ELSE <<1, 0>> \o Codes(filename)

\* key=lambda f: f.path.lower()
LowerPathKey(f) == Codes(StrLower(PathOf(f)))

\* The classification and the keys of every file, computed once
CategoryOf == [f \in FileUniverse |-> Category(f)]

ModuleOf == [f \in FileUniverse |-> ModuleName(PathOf(f))]

PriorityKeyOf == [f \in FileUniverse |-> file_priority(f)]

LowerPathKeyOf == [f \in FileUniverse |-> LowerPathKey(f)]

\* CategoryFiles as it would be if the classification tested "readme" with
\* an if of its own, so that a readme also fell through to the other root
\* files
CategoryFiles_ReadmeAlsoOther(files, cat) ==
    SelectSeq(files, LAMBDA f : \/ CategoryOf[f] = cat
                                \/ cat = "root_other" /\ CategoryOf[f] = "readme")

\* readme_files / root_config_files / root_other_files: the files of one
\* category, in input order
CategoryFiles(files, cat) == SelectSeq(files, LAMBDA f : CategoryOf[f] = cat)

\* module_files[module_name]: the non-root files of one module, in input order
ModuleFiles(files, m) ==
    SelectSeq(files, LAMBDA f : CategoryOf[f] = "module" /\ ModuleOf[f] = m)

RECURSIVE SortedNames_Descending(_)
\* SortedNames as it would be with the module names sorted in reverse
SortedNames_Descending(names) ==
    IF names = {} THEN <<>>
    ELSE LET greatest == CHOOSE n \in names :
                            \A o \in names \ {n} : KeyLess(Codes(o), Codes(n))
         IN  <<greatest>> \o SortedNames_Descending(names \ {greatest})

RECURSIVE SortedNames(_)
\* sorted(module_files.keys())
SortedNames(names) ==
    IF names = {} THEN <<>>
    ELSE LET least == CHOOSE n \in names :
                         \A o \in names \ {n} : KeyLess(Codes(n), Codes(o))
         IN  <<least>> \o SortedNames(names \ {least})

RECURSIVE ModulesInOrder(_, _)
\* for module_name in sorted(module_files.keys()): sort the module's list by
\* file_priority and extend the result with it
ModulesInOrder(files, names) ==
    IF names = <<>> THEN <<>>
    ELSE SortedBy(ModuleFiles(files, Head(names)), PriorityKeyOf)
         \o ModulesInOrder(files, Tail(names))

\* _sort_files_by_priority as it would be if the remaining root files were
\* emitted before the root configuration files
_sort_files_by_priority_ConfigLast(files) ==
    SortedBy(CategoryFiles(files, "readme"), LowerPathKeyOf)
    \o SortedBy(CategoryFiles(files, "root_other"), PriorityKeyOf)
    \o SortedBy(CategoryFiles(files, "root_config"), LowerPathKeyOf)
    \o ModulesInOrder(files,
          SortedNames({ModuleOf[f] : f \in {g \in Range(files) : CategoryOf[g] = "module"}}))

_sort_files_by_priority(files) ==
    SortedBy(CategoryFiles(files, "readme"), LowerPathKeyOf)
    \o SortedBy(CategoryFiles(files, "root_config"), LowerPathKeyOf)
    \o SortedBy(CategoryFiles(files, "root_other"), PriorityKeyOf)
    \o ModulesInOrder(files,
          SortedNames({ModuleOf[f] : f \in {g \in Range(files) : CategoryOf[g] = "module"}}))

\* ------------------------------------------------------------------------
\* node3_chunk_files.chunk_files: packing
\* ------------------------------------------------------------------------
\* file_tokens = file_info.token_count + 100
FORMAT_OVERHEAD == 100

DASH_WIDTH == 40

EQUALS_WIDTH == 60

RECURSIVE Repeat(_, _)
\* c * n for a string c
Repeat(c, n) == IF n = 0 THEN "" ELSE c \o Repeat(c, n - 1)

\* file_utils.format_file_for_prompt
format_file_for_prompt(file_path, content) ==
    "File path: " \o file_path \o "\n" \o Repeat("-", DASH_WIDTH) \o "\n"
        \o content \o "\n" \o Repeat("-", DASH_WIDTH)

RECURSIVE StrJoin(_, _)
\* sep.join(parts)
StrJoin(sep, parts) ==
    IF parts = <<>> THEN ""
    ELSE IF Len(parts) = 1 THEN parts[1]
    ELSE parts[1] \o sep \o StrJoin(sep, Tail(parts))

\* "\n\n" + "=" * 60 + "\n\n".join(combined_parts)
CombinedContent(files) ==
    "\n\n" \o Repeat("=", EQUALS_WIDTH)
        \o StrJoin("\n\n", [i \in 1..Len(files) |->
               format_file_for_prompt(FileTable[files[i]].text,
                                      FileTable[files[i]].content)])

_create_chunk(chunk_id, files, token_count) ==
    [chunk_id |-> chunk_id, files |-> files,
     combined_content |-> CombinedContent(files), token_count |-> token_count]

\* the locals of the packing loop before its first iteration
PackStart ==
    [chunks |-> <<>>, current_chunk_files |-> <<>>,
     current_chunk_tokens |-> 0, chunk_id |-> 0]

\* the chunk list after the open chunk, if it has files, is sealed
Sealed(acc) ==
    IF acc.current_chunk_files # <<>>
    THEN Append(acc.chunks, _create_chunk(acc.chunk_id, acc.current_chunk_files,
                                          acc.current_chunk_tokens))
    ELSE acc.chunks

\* PackStep as it would be if the file that overflows the open chunk were
\* left out of the fresh one
PackStep_DropOnOverflow(acc, f, max_tokens_per_chunk) ==
    LET file_tokens == FileTable[f].token_count + FORMAT_OVERHEAD
    IN  IF acc.current_chunk_tokens + file_tokens > max_tokens_per_chunk
        THEN [chunks |-> Sealed(acc),
              current_chunk_files |-> <<>>,
              current_chunk_tokens |-> 0,
              chunk_id |-> IF acc.current_chunk_files # <<>>
                           THEN acc.chunk_id + 1 ELSE acc.chunk_id]
        ELSE [acc EXCEPT !.current_chunk_files = Append(@, f),
                         !.current_chunk_tokens = @ + file_tokens]

\* PackStep as it would be if the open chunk were tested before the file is
\* counted: "if current_chunk_tokens > max_tokens_per_chunk"
PackStep_TestBeforeAdd(acc, f, max_tokens_per_chunk) ==
    LET file_tokens == FileTable[f].token_count + FORMAT_OVERHEAD
    IN  IF acc.current_chunk_tokens > max_tokens_per_chunk
        THEN [chunks |-> Sealed(acc),
              current_chunk_files |-> <<f>>,
              current_chunk_tokens |-> file_tokens,
              chunk_id |-> IF acc.current_chunk_files # <<>>
                           THEN acc.chunk_id + 1 ELSE acc.chunk_id]
        ELSE [acc EXCEPT !.current_chunk_files = Append(@, f),
                         !.current_chunk_tokens = @ + file_tokens]

\* PackStep as it would be if chunk_id were advanced on every overflow, also
\* when there is no open chunk to seal
PackStep_AlwaysAdvance(acc, f, max_tokens_per_chunk) ==
    LET file_tokens == FileTable[f].token_count + FORMAT_OVERHEAD
    IN  IF acc.current_chunk_tokens + file_tokens > max_tokens_per_chunk
        THEN [chunks |-> Sealed(acc),
              current_chunk_files |-> <<f>>,
              current_chunk_tokens |-> file_tokens,
              chunk_id |-> acc.chunk_id + 1]
        ELSE [acc EXCEPT !.current_chunk_files = Append(@, f),
                         !.current_chunk_tokens = @ + file_tokens]

\* PackStep as it would be if a fresh chunk started at the file's token_count
\* without the formatting overhead
PackStep_ResetWithoutOverhead(acc, f, max_tokens_per_chunk) ==
    LET file_tokens == FileTable[f].token_count + FORMAT_OVERHEAD
    IN  IF acc.current_chunk_tokens + file_tokens > max_tokens_per_chunk
        THEN [chunks |-> Sealed(acc),
              current_chunk_files |-> <<f>>,
              current_chunk_tokens |-> FileTable[f].token_count,
              chunk_id |-> IF acc.current_chunk_files # <<>>
                           THEN acc.chunk_id + 1 ELSE acc.chunk_id]
        ELSE [acc EXCEPT !.current_chunk_files = Append(@, f),
                         !.current_chunk_tokens = @ + file_tokens]

\* PackStep as it would be if the file were appended first and the chunk
\* sealed once it is over the capacity
PackStep_AppendThenSeal(acc, f, max_tokens_per_chunk) ==
    LET file_tokens == FileTable[f].token_count + FORMAT_OVERHEAD
        appended == [acc EXCEPT !.current_chunk_files = Append(@, f),
                                !.current_chunk_tokens = @ + file_tokens]
    IN  IF acc.current_chunk_tokens + file_tokens > max_tokens_per_chunk
        THEN [chunks |-> Sealed(appended),
              current_chunk_files |-> <<>>,
              current_chunk_tokens |-> 0,
              chunk_id |-> acc.chunk_id + 1]
        ELSE appended

\* PackStep as it would be if the overflow test counted the file's
\* token_count without the formatting overhead
PackStep_TestWithoutOverhead(acc, f, max_tokens_per_chunk) ==
    LET file_tokens == FileTable[f].token_count + FORMAT_OVERHEAD
    IN  IF acc.current_chunk_tokens + FileTable[f].token_count > max_tokens_per_chunk
        THEN [chunks |-> Sealed(acc),
              current_chunk_files |-> <<f>>,
              current_chunk_tokens |-> file_tokens,
              chunk_id |-> IF acc.current_chunk_files # <<>>
                           THEN acc.chunk_id + 1 ELSE acc.chunk_id]
        ELSE [acc EXCEPT !.current_chunk_files = Append(@, f),
                         !.current_chunk_tokens = @ + file_tokens]

\* PackStep as it would be if a chunk were sealed as soon as the file fills
\* it to the capacity: ">=" in place of ">"
PackStep_SealWhenFull(acc, f, max_tokens_per_chunk) ==
    LET file_tokens == FileTable[f].token_count + FORMAT_OVERHEAD
    IN  IF acc.current_chunk_tokens + file_tokens >= max_tokens_per_chunk
        THEN [chunks |-> Sealed(acc),
              current_chunk_files |-> <<f>>,
              current_chunk_tokens |-> file_tokens,
              chunk_id |-> IF acc.current_chunk_files # <<>>
                           THEN acc.chunk_id + 1 ELSE acc.chunk_id]
        ELSE [acc EXCEPT !.current_chunk_files = Append(@, f),
                         !.current_chunk_tokens = @ + file_tokens]

\* one iteration of "for file_info in sorted_files"
PackStep(acc, f, max_tokens_per_chunk) ==
    LET file_tokens == FileTable[f].token_count + FORMAT_OVERHEAD
    IN  IF acc.current_chunk_tokens + file_tokens > max_tokens_per_chunk
        THEN [chunks |-> Sealed(acc),
              current_chunk_files |-> <<f>>,
              current_chunk_tokens |-> file_tokens,
              chunk_id |-> IF acc.current_chunk_files # <<>>
                           THEN acc.chunk_id + 1 ELSE acc.chunk_id]
        ELSE [acc EXCEPT !.current_chunk_files = Append(@, f),
                         !.current_chunk_tokens = @ + file_tokens]

RECURSIVE PackLoop(_, _)
\* the locals after the loop has run over sorted_files
PackLoop(sorted_files, max_tokens_per_chunk) ==
    IF sorted_files = <<>> THEN PackStart
    ELSE PackStep(PackLoop(SubSeq(sorted_files, 1, Len(sorted_files) - 1),
                           max_tokens_per_chunk),
                  sorted_files[Len(sorted_files)], max_tokens_per_chunk)

\* the chunks chunk_files builds from the prioritized list
PackChunks(sorted_files, max_tokens_per_chunk) ==
    Sealed(PackLoop(sorted_files, max_tokens_per_chunk))

\* ------------------------------------------------------------------------
\* Configuration (config_loader.Config, read-only during a run)
\* ------------------------------------------------------------------------
EXT_md   == <<".","m","d">>

EXT_json == <<".","j","s","o","n">>

EXT_js   == <<".","j","s">>

EXT_py   == <<".","p","y">>

DIR_src  == <<"s","r","c">>

DIR_lib  == <<"l","i","b">>

\* exclude_dirs stands for the patterns "**/<dir>/**" of exclude_patterns
Configs ==
    { [include_extensions |-> {EXT_md, EXT_json, EXT_js, EXT_py},
       exclude_dirs |-> {}, max_file_size |-> 102400, max_files |-> 500,
       max_input_tokens |-> 100000, reserved_tokens |-> 10000,
       save_intermediate |-> TRUE],
      [include_extensions |-> {EXT_md, EXT_json, EXT_js, EXT_py},
       exclude_dirs |-> {}, max_file_size |-> 102400, max_files |-> 500,
       max_input_tokens |-> 350, reserved_tokens |-> 100,
       save_intermediate |-> TRUE],
      [include_extensions |-> {EXT_js, EXT_py},
       exclude_dirs |-> {DIR_lib}, max_file_size |-> 100, max_files |-> 2,
       max_input_tokens |-> 300, reserved_tokens |-> 100,
       save_intermediate |-> FALSE],
      [include_extensions |-> {EXT_md, EXT_json, EXT_js, EXT_py},
       exclude_dirs |-> {DIR_src, DIR_lib}, max_file_size |-> 102400,
       max_files |-> 500, max_input_tokens |-> 500, reserved_tokens |-> 100,
       save_intermediate |-> TRUE],
      [include_extensions |-> {EXT_md, EXT_json, EXT_js, EXT_py},
       exclude_dirs |-> {}, max_file_size |-> 102400, max_files |-> 0,
       max_input_tokens |-> 350, reserved_tokens |-> 100,
       save_intermediate |-> TRUE] }

\* ------------------------------------------------------------------------
\* State
\* ------------------------------------------------------------------------
VARIABLES
    fs,           \* the repository path on disk: exists, is_dir, files in rglob order
    config,       \* the Config of the run
    state,        \* the Repo2DocState threaded through the stages
    node,         \* the graph node about to run, "END", or "RAISED"
    gen,          \* the locals of generate_doc between two model invocations
    invocations,  \* the model invocations made so far, in order
    written,      \* the files save_output has written, in order
    executed,     \* the stages entered so far, in order
    final_state,  \* <<>> until graph.invoke returns, then <<the state returned>>
    sort_in,      \* the list one call of _sort_files_by_priority is given
    sort_in2,     \* the same files in another order, given to a second call
    sort_out,     \* what the first call returned
    sort_out2,    \* what the second call returned
    sort_pc       \* "call" before the two calls, "done" after, "idle" in a run

sort_vars == <<sort_in, sort_in2, sort_out, sort_out2, sort_pc>>

run_vars == <<fs, config, state, node, gen, invocations, written, executed,
              final_state>>

vars == <<fs, config, state, node, gen, invocations, written, executed,
          final_state, sort_in, sort_in2, sort_out, sort_out2, sort_pc>>

\* ------------------------------------------------------------------------
\* Bounds
\* ------------------------------------------------------------------------
\* most files in a list handed to the prioritizer on its own
MaxSortFiles == 5

\* most files in the repository of a pipeline run
MaxRepoFiles == 3

\* the texts the model may return
Docs == {"", "docA"}

RECURSIVE Arrangements(_, _)
\* the lists of at most n distinct elements of S
Arrangements(S, n) ==
    IF n = 0 THEN {<<>>}
    ELSE LET prev == Arrangements(S, n - 1)
         IN  prev \cup {Append(s[1], s[2]) :
                          s \in {t \in prev \X S : t[2] \notin Range(t[1])}}

\* s with the elements at i and i+1 exchanged
Swapped(s, i) == [s EXCEPT ![i] = s[i + 1], ![i + 1] = s[i]]

\* ------------------------------------------------------------------------
\* state.py
\* ------------------------------------------------------------------------
\* error = None
None == [msg |-> "None", chunk_index |-> 0]

\* an error message; chunk_index is the number formatted into the text
\* (0 when the message carries none)
ErrorMessage(msg, chunk_index) == [msg |-> msg, chunk_index |-> chunk_index]

create_initial_state ==
    [all_files |-> <<>>, filtered_files |-> <<>>, chunks |-> <<>>,
     current_chunk_index |-> 0, total_chunks |-> 0,
     current_document |-> "", intermediate_documents |-> <<>>,
     status |-> "initialized", error |-> None,
     total_files |-> 0, total_tokens |-> 0, processed_chunks |-> 0]

\* ------------------------------------------------------------------------
\* The stages as transformations of the state
\* ------------------------------------------------------------------------
\* Failed as it would be if the stage returned a fresh state carrying the
\* error
Failed_Reset(st, msg) ==
    [create_initial_state EXCEPT !.status = "error", !.error = ErrorMessage(msg, 0)]

Failed(st, msg) == [st EXCEPT !.status = "error", !.error = ErrorMessage(msg, 0)]

\* read_file_content(...) is not None: the file is within max_size
Readable(f, cfg) == FileTable[f].size <= cfg.max_file_size

\* scan_files as it would be without the is_dir check: rglob on a path that
\* is no directory yields nothing
scan_files_NoDirCheck(st, cfg, disk) ==
    IF ~disk.exists THEN Failed(st, "repo path does not exist")
    ELSE LET all_files ==
                 SelectSeq(disk.files,
                     LAMBDA f : /\ get_file_extension(PathOf(f)) \in cfg.include_extensions
                                /\ Readable(f, cfg))
         IN  [st EXCEPT !.all_files = all_files,
                        !.total_files = Len(all_files),
                        !.status = "scanned"]

scan_files(st, cfg, disk) ==
    IF ~disk.exists THEN Failed(st, "repo path does not exist")
    ELSE IF ~disk.is_dir THEN Failed(st, "path is not a directory")
    ELSE LET all_files ==
                 SelectSeq(disk.files,
                     LAMBDA f : /\ get_file_extension(PathOf(f)) \in cfg.include_extensions
                                /\ Readable(f, cfg))
         IN  [st EXCEPT !.all_files = all_files,
                        !.total_files = Len(all_files),
                        !.status = "scanned"]

\* spec.match_file(path) for the patterns "**/<dir>/**": some directory on
\* the path is one of the excluded ones
match_file(cfg, path) ==
    LET parts == StrSplit(path, "/")
    IN  \E i \in 1..(Len(parts) - 1) : parts[i] \in cfg.exclude_dirs

RECURSIVE SumTokens(_)
\* sum(f.token_count for f in files)
SumTokens(files) ==
    IF files = <<>> THEN 0
    ELSE FileTable[Head(files)].token_count + SumTokens(Tail(files))

\* key=lambda f: f.path
PathKeyOf == [f \in FileUniverse |-> Codes(PathOf(f))]

\* filter_files as it would be if an empty all_files were passed on as an
\* empty selection
filter_files_EmptyIsFiltered(st, cfg) ==
    IF st.all_files = <<>>
    THEN [st EXCEPT !.filtered_files = <<>>, !.total_tokens = 0,
                    !.status = "filtered"]
    ELSE LET kept == SelectSeq(st.all_files, LAMBDA f : ~match_file(cfg, PathOf(f)))
             capped == IF Len(kept) > cfg.max_files
                       THEN SubSeq(kept, 1, cfg.max_files) ELSE kept
             filtered_files == SortedBy(capped, PathKeyOf)
         IN  [st EXCEPT !.filtered_files = filtered_files,
                        !.total_tokens = SumTokens(filtered_files),
                        !.status = "filtered"]

\* filter_files as it would be without the check for an empty all_files
filter_files_NoEmptyCheck(st, cfg) ==
    LET kept == SelectSeq(st.all_files, LAMBDA f : ~match_file(cfg, PathOf(f)))
        capped == IF Len(kept) > cfg.max_files
                  THEN SubSeq(kept, 1, cfg.max_files) ELSE kept
        filtered_files == SortedBy(capped, PathKeyOf)
    IN  [st EXCEPT !.filtered_files = filtered_files,
                   !.total_tokens = SumTokens(filtered_files),
                   !.status = "filtered"]

\* filter_files as it would be if it reported an empty selection itself
filter_files_EmptyResultIsError(st, cfg) ==
    IF st.all_files = <<>> THEN Failed(st, "no files found")
    ELSE LET kept == SelectSeq(st.all_files, LAMBDA f : ~match_file(cfg, PathOf(f)))
             capped == IF Len(kept) > cfg.max_files
                       THEN SubSeq(kept, 1, cfg.max_files) ELSE kept
             filtered_files == SortedBy(capped, PathKeyOf)
         IN  IF filtered_files = <<>> THEN Failed(st, "no files found")
             ELSE [st EXCEPT !.filtered_files = filtered_files,
                             !.total_tokens = SumTokens(filtered_files),
                             !.status = "filtered"]

\* filter_files as it would be if the files were sorted by path before the
\* cut to max_files
filter_files_SortThenTruncate(st, cfg) ==
    IF st.all_files = <<>> THEN Failed(st, "no files found")
    ELSE LET kept == SelectSeq(st.all_files, LAMBDA f : ~match_file(cfg, PathOf(f)))
             sorted == SortedBy(kept, PathKeyOf)
             filtered_files == IF Len(sorted) > cfg.max_files
                               THEN SubSeq(sorted, 1, cfg.max_files) ELSE sorted
         IN  [st EXCEPT !.filtered_files = filtered_files,
                        !.total_tokens = SumTokens(filtered_files),
                        !.status = "filtered"]

filter_files(st, cfg) ==
    IF st.all_files = <<>> THEN Failed(st, "no files found")
    ELSE LET kept == SelectSeq(st.all_files, LAMBDA f : ~match_file(cfg, PathOf(f)))
             capped == IF Len(kept) > cfg.max_files
                       THEN SubSeq(kept, 1, cfg.max_files) ELSE kept
             filtered_files == SortedBy(capped, PathKeyOf)
         IN  [st EXCEPT !.filtered_files = filtered_files,
                        !.total_tokens = SumTokens(filtered_files),
                        !.status = "filtered"]

\* max_tokens_per_chunk = max_input_tokens - reserved_tokens
Capacity(cfg) == cfg.max_input_tokens - cfg.reserved_tokens

\* chunk_files as it would be without the check for an empty filtered_files
chunk_files_NoEmptyCheck(st, cfg) ==
    LET chunks == PackChunks(_sort_files_by_priority(st.filtered_files),
                             Capacity(cfg))
    IN  [st EXCEPT !.chunks = chunks,
                   !.total_chunks = Len(chunks),
                   !.current_chunk_index = 0,
                   !.status = "chunked"]

chunk_files(st, cfg) ==
    IF st.filtered_files = <<>> THEN Failed(st, "no filtered files")
    ELSE LET chunks == PackChunks(_sort_files_by_priority(st.filtered_files),
                                  Capacity(cfg))
         IN  [st EXCEPT !.chunks = chunks,
                        !.total_chunks = Len(chunks),
                        !.current_chunk_index = 0,
                        !.status = "chunked"]

\* ------------------------------------------------------------------------
\* llm_workflow.Repo2DocWorkflow: the graph
\* ------------------------------------------------------------------------
_check_error(st) == IF st.status = "error" THEN "error" ELSE "continue"

\* RouteAfter as it would be if the "continue" edge of chunk_files led back
\* to filter_files
RouteAfter_Miswired(n, st) ==
    IF n = "save_output" THEN "END"
    ELSE IF _check_error(st) = "error" THEN "END"
    ELSE CASE n = "scan_files"   -> "filter_files"
           [] n = "filter_files" -> "chunk_files"
           [] n = "chunk_files"  -> "filter_files"
           [] n = "generate_doc" -> "save_output"

\* RouteAfter as it would be with plain edges in place of the conditional
\* ones: the status is not looked at
RouteAfter_IgnoreError(n, st) ==
    CASE n = "scan_files"   -> "filter_files"
      [] n = "filter_files" -> "chunk_files"
      [] n = "chunk_files"  -> "generate_doc"
      [] n = "generate_doc" -> "save_output"
      [] n = "save_output"  -> "END"

\* the edges of _build_graph: where the controller goes after node n has
\* returned st
RouteAfter(n, st) ==
    IF n = "save_output" THEN "END"
    ELSE IF _check_error(st) = "error" THEN "END"
    ELSE CASE n = "scan_files"   -> "filter_files"
           [] n = "filter_files" -> "chunk_files"
           [] n = "chunk_files"  -> "generate_doc"
           [] n = "generate_doc" -> "save_output"

\* node n returns st to the controller, which routes; graph.invoke returns
\* the state once END is reached
Return(n, st) ==
    /\ state' = st
    /\ node' = RouteAfter(n, st)
    /\ final_state' = IF RouteAfter(n, st) = "END" THEN <<st>> ELSE final_state

GenIdle == [pc |-> "idle", i |-> 0, current_document |-> ""]

\* ------------------------------------------------------------------------
\* A pipeline run (Repo2DocWorkflow.run)
\* ------------------------------------------------------------------------
Init ==
    /\ fs \in {[exists |-> FALSE, is_dir |-> FALSE, files |-> <<>>],
               [exists |-> TRUE, is_dir |-> FALSE, files |-> <<>>]}
              \cup {[exists |-> TRUE, is_dir |-> TRUE, files |-> fl] :
                       fl \in Arrangements(RepoFiles, MaxRepoFiles)}
    /\ config \in Configs
    /\ state = create_initial_state
    /\ node = "scan_files"
    /\ gen = GenIdle
    /\ invocations = <<>>
    /\ written = <<>>
    /\ executed = <<>>
    /\ final_state = <<>>
    /\ sort_in = <<>>
    /\ sort_in2 = <<>>
    /\ sort_out = <<>>
    /\ sort_out2 = <<>>
    /\ sort_pc = "idle"

ScanFiles ==
    /\ node = "scan_files"
    /\ executed' = Append(executed, "scan_files")
    /\ Return("scan_files", scan_files(state, config, fs))
    /\ UNCHANGED <<fs, config, gen, invocations, written, sort_vars>>

FilterFiles ==
    /\ node = "filter_files"
    /\ executed' = Append(executed, "filter_files")
    /\ Return("filter_files", filter_files(state, config))
    /\ UNCHANGED <<fs, config, gen, invocations, written, sort_vars>>

ChunkFiles ==
    /\ node = "chunk_files"
    /\ executed' = Append(executed, "chunk_files")
    /\ Return("chunk_files", chunk_files(state, config))
    /\ UNCHANGED <<fs, config, gen, invocations, written, sort_vars>>

\* generate_doc up to the loop: the empty-chunks check and _create_llm
GenerateDocEnter ==
    /\ node = "generate_doc"
    /\ gen.pc = "idle"
    /\ executed' = Append(executed, "generate_doc")
    /\ IF state.chunks = <<>>
       THEN /\ Return("generate_doc", Failed(state, "no chunks to process"))
            /\ UNCHANGED gen
       ELSE \/ /\ gen' = [pc |-> "loop", i |-> 0,
                          current_document |-> state.current_document]
               /\ UNCHANGED <<state, node, final_state>>
            \/ \* ChatOpenAI(**kwargs) raises: nothing catches it
               /\ node' = "RAISED"
               /\ UNCHANGED <<state, gen, final_state>>
    /\ UNCHANGED <<fs, config, invocations, written, sort_vars>>

\* Messages as it would be if the incremental prompt were filled from
\* state["current_document"], which the loop does not update
Messages_StalePrevious(i, chunk, total_chunks, current_document) ==
    [chunk_id |-> chunk.chunk_id,
     chunk_index |-> i + 1,
     total_chunks |-> total_chunks,
     system |-> IF i = 0 THEN "system" ELSE "incremental",
     human |-> IF i = 0 THEN "first_chunk" ELSE "next_chunk",
     previous_document |-> IF i = 0 THEN <<>> ELSE <<"">>,
     code_content |-> chunk.combined_content]

\* the messages of one invocation: chunk 0 gets the system and first-chunk
\* prompts, a later chunk the incremental prompt filled with the previous
\* document and the next-chunk prompt
Messages(i, chunk, total_chunks, current_document) ==
    [chunk_id |-> chunk.chunk_id,
     chunk_index |-> i + 1,
     total_chunks |-> total_chunks,
     system |-> IF i = 0 THEN "system" ELSE "incremental",
     human |-> IF i = 0 THEN "first_chunk" ELSE "next_chunk",
     previous_document |-> IF i = 0 THEN <<>> ELSE <<current_document>>,
     code_content |-> chunk.combined_content]

\* an entry of the invocation log: the messages sent, whether llm.invoke
\* returned, and the text it returned
Invocation(messages, ok, text) == [messages |-> messages, ok |-> ok, text |-> text]

\* RecordDocument as it would be if the list were replaced by one holding
\* the latest document only
RecordDocument_KeepLatest(st, new_document) ==
    [st EXCEPT !.intermediate_documents = <<new_document>>]

\* RecordDocument as it would be if the loop stored the new document in the
\* state at once
RecordDocument_AlsoCurrent(st, new_document) ==
    [st EXCEPT !.intermediate_documents = Append(@, new_document),
               !.current_document = new_document]

\* intermediate_documents.append(new_document): the list is the object the
\* state holds, so the state sees the append at once
RecordDocument(st, new_document) ==
    [st EXCEPT !.intermediate_documents = Append(@, new_document)]

\* ChunkFailure as it would be if the message carried the loop variable i
\* instead of chunk_index = i + 1
ChunkFailure_ZeroBased(st, chunk_index) ==
    [st EXCEPT !.status = "error",
               !.error = ErrorMessage("error processing chunk", chunk_index - 1)]

\* ChunkFailure as it would be if the except branch only logged the error
ChunkFailure_Swallow(st, chunk_index) == st

\* the except branch of the loop, for the chunk of 1-based index chunk_index
ChunkFailure(st, chunk_index) ==
    [st EXCEPT !.status = "error",
               !.error = ErrorMessage("error processing chunk", chunk_index)]

\* Generated as it would be if generate_doc marked the run completed itself
Generated_Completes(st, current_document) ==
    [st EXCEPT !.current_document = current_document,
               !.processed_chunks = Len(st.chunks),
               !.status = "completed"]

\* Generated as it would be if generate_doc refused an empty document
Generated_RejectsEmpty(st, current_document) ==
    IF current_document = ""
    THEN [st EXCEPT !.status = "error",
                    !.error = ErrorMessage("no document to save", 0)]
    ELSE [st EXCEPT !.current_document = current_document,
                    !.processed_chunks = Len(st.chunks),
                    !.status = "generated"]

\* the state update after the loop
Generated(st, current_document) ==
    [st EXCEPT !.current_document = current_document,
               !.processed_chunks = Len(st.chunks),
               !.status = "generated"]

\* one iteration of the loop over the chunks: llm.invoke returns a text or
\* raises
InvokeModel ==
    /\ node = "generate_doc"
    /\ gen.pc = "loop"
    /\ gen.i < Len(state.chunks)
    /\ LET messages == Messages(gen.i, state.chunks[gen.i + 1], Len(state.chunks),
                                gen.current_document)
       IN  \/ \E new_document \in Docs :
                 /\ invocations' = Append(invocations,
                                          Invocation(messages, TRUE, new_document))
                 /\ gen' = [gen EXCEPT !.i = @ + 1,
                                       !.current_document = new_document]
                 /\ state' = RecordDocument(state, new_document)
                 /\ UNCHANGED <<node, final_state>>
           \/ /\ invocations' = Append(invocations, Invocation(messages, FALSE, ""))
              /\ gen' = GenIdle
              /\ Return("generate_doc", ChunkFailure(state, gen.i + 1))
    /\ UNCHANGED <<fs, config, written, executed, sort_vars>>

\* generate_doc after the loop
GenerateDocFinish ==
    /\ node = "generate_doc"
    /\ gen.pc = "loop"
    /\ gen.i = Len(state.chunks)
    /\ gen' = GenIdle
    /\ Return("generate_doc", Generated(state, gen.current_document))
    /\ UNCHANGED <<fs, config, invocations, written, executed, sort_vars>>

\* the files save_output writes, in order
OutputFiles(st, cfg) ==
    <<[file |-> "final", content |-> st.current_document],
      [file |-> "backup", content |-> st.current_document]>>
    \o (IF cfg.save_intermediate /\ st.intermediate_documents # <<>>
        THEN [i \in 1..Len(st.intermediate_documents) |->
                 [file |-> "intermediate", content |-> st.intermediate_documents[i]]]
        ELSE <<>>)
    \o <<[file |-> "report", content |-> "report"]>>

\* SaveOutput as it would be if save_output did not test the document for
\* emptiness before writing
SaveOutput_NoEmptyCheck ==
    /\ node = "save_output"
    /\ executed' = Append(executed, "save_output")
    /\ \/ /\ written' = written \o OutputFiles(state, config)
          /\ Return("save_output", [state EXCEPT !.status = "completed"])
       \/ \E k \in 0..(Len(OutputFiles(state, config)) - 1) :
             /\ written' = written \o SubSeq(OutputFiles(state, config), 1, k)
             /\ node' = "RAISED"
             /\ UNCHANGED <<state, final_state>>
    /\ UNCHANGED <<fs, config, gen, invocations, sort_vars>>

\* save_output: the guard on an empty document, the files, the status
SaveOutput ==
    /\ node = "save_output"
    /\ executed' = Append(executed, "save_output")
    /\ IF state.current_document = ""
       THEN /\ Return("save_output", Failed(state, "no document to save"))
            /\ UNCHANGED written
       ELSE \/ /\ written' = written \o OutputFiles(state, config)
               /\ Return("save_output", [state EXCEPT !.status = "completed"])
            \/ \* mkdir or one open/write raises after k files were written
               \E k \in 0..(Len(OutputFiles(state, config)) - 1) :
                  /\ written' = written \o SubSeq(OutputFiles(state, config), 1, k)
                  /\ node' = "RAISED"
                  /\ UNCHANGED <<state, final_state>>
    /\ UNCHANGED <<fs, config, gen, invocations, sort_vars>>

Next ==
    \/ ScanFiles
    \/ FilterFiles
    \/ ChunkFiles
    \/ GenerateDocEnter
    \/ InvokeModel
    \/ GenerateDocFinish
    \/ SaveOutput

Spec == Init /\ [][Next]_vars

\* ------------------------------------------------------------------------
\* The prioritizer called on its own, on two orders of the same files
\* ------------------------------------------------------------------------
SortInit ==
    /\ sort_in \in Arrangements(SortFiles, MaxSortFiles)
    /\ sort_in2 \in {sort_in} \cup {Swapped(sort_in, i) : i \in 1..(Len(sort_in) - 1)}
    /\ sort_out = <<>>
    /\ sort_out2 = <<>>
    /\ sort_pc = "call"
    /\ fs = [exists |-> FALSE, is_dir |-> FALSE, files |-> <<>>]
    /\ config \in {c \in Configs : c.max_input_tokens = 100000}
    /\ state = create_initial_state
    /\ node = "idle"
    /\ gen = GenIdle
    /\ invocations = <<>>
    /\ written = <<>>
    /\ executed = <<>>
    /\ final_state = <<>>

Prioritize ==
    /\ sort_pc = "call"
    /\ sort_out' = _sort_files_by_priority(sort_in)
    /\ sort_out2' = _sort_files_by_priority(sort_in2)
    /\ sort_pc' = "done"
    /\ UNCHANGED <<sort_in, sort_in2, run_vars>>

SortNext == Prioritize

SpecSort == SortInit /\ [][SortNext]_vars

\* ------------------------------------------------------------------------
\* Properties of the packer
\* ------------------------------------------------------------------------
RECURSIVE ConcatFiles(_)
\* the file lists of the chunks, one after the other
ConcatFiles(chunks) ==
    IF chunks = <<>> THEN <<>>
    ELSE Head(chunks).files \o ConcatFiles(Tail(chunks))

\* chunk_files has produced the chunks of this run
Chunked == state.status \in {"chunked", "generated", "completed"}

\* _sort_files_by_priority of every list a run can select, computed once
PrioritizedOf ==
    [fl \in Arrangements(RepoFiles, MaxRepoFiles) |-> _sort_files_by_priority(fl)]

\* C1: the file lists of the chunks chunk_files produced, concatenated in
\* chunk order and intra-chunk order, are exactly the prioritized sequence of
\* the filtered files: nothing dropped, duplicated or reordered.
C1_ChunksConcatenateToPrioritized ==
    Chunked =>
        ConcatFiles(state.chunks) = PrioritizedOf[state.filtered_files]

\* chunk_files split three files into two chunks, one of them holding two files
C1_Witness ==
    /\ state.status = "chunked"
    /\ Len(state.filtered_files) = 3
    /\ Len(state.chunks) = 2
    /\ \E k \in 1..2 : Len(state.chunks[k].files) = 2

\* C2: a chunk of two or more files never exceeds the capacity; a chunk that
\* exceeds it holds exactly one file, whose own cost (token_count + 100)
\* exceeds the capacity.
C2_OnlySingleOversizedExceeds ==
    Chunked =>
        \A k \in 1..Len(state.chunks) :
            LET chunk == state.chunks[k]
            IN  /\ Len(chunk.files) >= 2 => chunk.token_count <= Capacity(config)
                /\ chunk.token_count > Capacity(config) =>
                      /\ Len(chunk.files) = 1
                      /\ FileTable[chunk.files[1]].token_count + FORMAT_OVERHEAD
                            > Capacity(config)

\* chunk_files produced a chunk over capacity next to a chunk of two files
\* that fills the capacity exactly
C2_Witness ==
    /\ state.status = "chunked"
    /\ \E k \in 1..Len(state.chunks) : state.chunks[k].token_count > Capacity(config)
    /\ \E k \in 1..Len(state.chunks) :
          /\ Len(state.chunks[k].files) = 2
          /\ state.chunks[k].token_count = Capacity(config)

\* C13: the chunk at list position i (from 0) has chunk_id i, so the ids of
\* N chunks are exactly 0..N-1, and total_chunks is N.
C13_ChunkIdsAreIndexes ==
    Chunked =>
        /\ \A k \in 1..Len(state.chunks) : state.chunks[k].chunk_id = k - 1
        /\ state.total_chunks = Len(state.chunks)

\* chunk_files produced three chunks, one of them for an oversized file
C13_Witness ==
    /\ state.status = "chunked"
    /\ Len(state.chunks) = 3
    /\ \E k \in 1..3 : state.chunks[k].token_count > Capacity(config)

\* C14: every chunk's token_count is the sum of its files' token_count plus
\* 100 for each file of the chunk.
C14_ChunkCostIsSumPlusOverhead ==
    Chunked =>
        \A k \in 1..Len(state.chunks) :
            state.chunks[k].token_count =
                SumTokens(state.chunks[k].files) + 100 * Len(state.chunks[k].files)

\* chunk_files produced a chunk of two files followed by a chunk started on
\* overflow
C14_Witness ==
    /\ state.status = "chunked"
    /\ Len(state.chunks) = 2
    /\ Len(state.chunks[1].files) = 2
    /\ state.chunks[2].token_count > 0

\* the file costs more than the capacity of a chunk
Oversized(f, cfg) == FileTable[f].token_count + 100 > Capacity(cfg)

\* C15: a file whose cost token_count + 100 exceeds the capacity is the only
\* file of its chunk, wherever it stands in the prioritized sequence; when it
\* is the only file given, the chunks are exactly the one chunk holding it.
C15_OversizedFileAlone ==
    Chunked =>
        /\ \A k \in 1..Len(state.chunks) :
              (\E n \in 1..Len(state.chunks[k].files) :
                    Oversized(state.chunks[k].files[n], config))
                 => Len(state.chunks[k].files) = 1
        /\ (Len(state.filtered_files) = 1 /\ Oversized(state.filtered_files[1], config))
              => /\ Len(state.chunks) = 1
                 /\ state.chunks[1].files = state.filtered_files

\* the oversized file stands at position n of a prioritized sequence of
\* count files, alone in the n-th of count chunks
OversizedAt(n, count) ==
    /\ state.status = "chunked"
    /\ Len(state.filtered_files) = count
    /\ Len(state.chunks) = count
    /\ Len(state.chunks[n].files) = 1
    /\ Oversized(state.chunks[n].files[1], config)

\* chunk_files has packed an oversized file that stands between two others
C15_Witness == OversizedAt(2, 3)

\* the token_count of each file of the list
TokenCounts(files) == [n \in 1..Len(files) |-> FileTable[files[n]].token_count]

\* C16: with capacity 250, three files of token_count 50, 80 and 120 in
\* prioritized order are packed as [file1], [file2], [file3] with chunk
\* costs 150, 180 and 220.
C16_ThreeFilesThreeChunks ==
    (/\ Chunked
     /\ Capacity(config) = 250
     /\ TokenCounts(PrioritizedOf[state.filtered_files]) = <<50, 80, 120>>)
        => /\ Len(state.chunks) = 3
           /\ \A k \in 1..3 :
                 state.chunks[k].files = <<PrioritizedOf[state.filtered_files][k]>>
           /\ [k \in 1..3 |-> state.chunks[k].token_count] = <<150, 180, 220>>

\* chunk_files has packed README.md (50), package.json (80) and main.py
\* (120) with capacity 250
C16_Witness ==
    /\ state.status = "chunked"
    /\ Capacity(config) = 250
    /\ [k \in 1..Len(state.chunks) |-> state.chunks[k].files]
          = <<(<<"README_md">>), (<<"package_json">>), (<<"main_py">>)>>

\* C26: for every two consecutive chunks, the token_count of the earlier
\* one plus the cost (token_count + 100) of the first file of the later one
\* is greater than the capacity: a chunk is sealed only when the next file
\* does not fit.
C26_GreedyMaximal ==
    Chunked =>
        \A k \in 1..(Len(state.chunks) - 1) :
            state.chunks[k].token_count
                + FileTable[state.chunks[k + 1].files[1]].token_count + 100
              > Capacity(config)

\* chunk_files sealed a chunk of two files that fill the capacity exactly
\* and opened a second chunk
C26_Witness ==
    /\ state.status = "chunked"
    /\ Len(state.chunks) = 2
    /\ Len(state.chunks[1].files) = 2
    /\ state.chunks[1].token_count = Capacity(config)

\* ------------------------------------------------------------------------
\* Properties of the synthesis loop
\* ------------------------------------------------------------------------
\* the 1-based indices of the chunks whose invocation raised
FailedAt == {j \in 1..Len(invocations) : ~invocations[j].ok}

\* C3: over three chunks, when the invocation for the second chunk fails the
\* run is over with status error, an error message that names chunk 2 and an
\* intermediate-document history of exactly one entry.
C3_SecondOfThreeFails ==
    (/\ Len(state.chunks) = 3
     /\ Len(invocations) >= 2
     /\ invocations[2].messages.chunk_index = 2
     /\ ~invocations[2].ok)
    => /\ final_state = <<state>>
       /\ state.status = "error"
       /\ state.error = ErrorMessage("error processing chunk", 2)
       /\ Len(state.intermediate_documents) = 1

\* three chunks, the first invocation returned and the second one raised
C3_Witness ==
    /\ Len(state.chunks) = 3
    /\ Len(invocations) = 2
    /\ invocations[1].ok
    /\ ~invocations[2].ok

\* C4: when the invocation for chunk k fails, generate_doc aborts: chunk k was
\* invoked once, nothing is invoked after it (no retry, no later chunk), the
\* status is error and the message carries the 1-based index k.
C4_FailureAborts ==
    \A j \in FailedAt :
        LET k == invocations[j].messages.chunk_index
        IN  /\ j = Len(invocations)
            /\ Cardinality({m \in 1..Len(invocations) :
                               invocations[m].messages.chunk_index = k}) = 1
            /\ \A m \in 1..Len(invocations) : invocations[m].messages.chunk_index <= k
            /\ node = "END"
            /\ state.status = "error"
            /\ state.error = ErrorMessage("error processing chunk", k)

\* an invocation raised for a chunk that is not the last one, after the
\* earlier ones had returned, and the run is over
C4_Witness ==
    /\ node = "END"
    /\ \E j \in FailedAt : 1 < j /\ j < Len(state.chunks)

\* C5: the chunks are invoked one at a time in index order; chunk 0 with the
\* system and first-chunk prompts and no previous document; chunk i > 0 with
\* the text returned for chunk i-1 as previous document; after the last chunk
\* current_document is the text returned for it.
C5_SequentialIncremental ==
    /\ \A j \in 1..Len(invocations) :
          LET m == invocations[j].messages
          IN  /\ j <= Len(state.chunks)
              /\ m.chunk_id = state.chunks[j].chunk_id
              /\ m.chunk_index = j
              /\ m.code_content = state.chunks[j].combined_content
              /\ j = 1 => /\ m.system = "system"
                          /\ m.human = "first_chunk"
                          /\ m.previous_document = <<>>
              /\ j > 1 => /\ m.system = "incremental"
                          /\ m.human = "next_chunk"
                          /\ invocations[j - 1].ok
                          /\ m.previous_document = <<invocations[j - 1].text>>
    /\ state.status \in {"generated", "completed"} =>
          /\ Len(invocations) = Len(state.chunks)
          /\ state.current_document = invocations[Len(invocations)].text

\* three chunks were synthesized and the three returned texts differ from
\* one chunk to the next
C5_Witness ==
    /\ state.status = "generated"
    /\ Len(invocations) = 3
    /\ invocations[1].text # invocations[2].text
    /\ invocations[2].text # invocations[3].text
    /\ invocations[2].text # ""

\* ------------------------------------------------------------------------
\* Properties of the pipeline controller
\* ------------------------------------------------------------------------
Stages == <<"scan_files", "filter_files", "chunk_files", "generate_doc", "save_output">>

StatusOrder == <<"initialized", "scanned", "filtered", "chunked", "generated", "completed">>

StatusRank(status) == CHOOSE r \in 1..Len(StatusOrder) : StatusOrder[r] = status

\* a move of the status tag that the required order allows
StatusMove(old, new) ==
    \/ new = old
    \/ /\ old \notin {"error", "completed"}
       /\ new \in {"error", StatusOrder[StatusRank(old) + 1]}

\* C6: the status starts at initialized and only moves one step along
\* initialized, scanned, filtered, chunked, generated, completed, or to error;
\* error is never left; the stages run in order, each at most once, and the
\* status of rank r is held while stage r has not returned yet.
C6_LinearStatus ==
    /\ [](executed = <<>> => state.status = "initialized")
    /\ [][StatusMove(state.status, state'.status)]_vars
    /\ [](/\ Len(executed) <= Len(Stages)
          /\ executed = SubSeq(Stages, 1, Len(executed)))
    /\ [](state.status # "error" =>
             Len(executed) \in {StatusRank(state.status) - 1, StatusRank(state.status)})

\* a run went through the five stages and ended completed
C6_Witness ==
    /\ state.status = "completed"
    /\ executed = Stages
    /\ node = "END"

\* C7: once a stage has returned status error the run is over: the state
\* returned by the run is that state, no further stage is entered, the model
\* is not invoked and nothing is written.
C7_ErrorHalts ==
    /\ [](state.status = "error" =>
             /\ node = "END"
             /\ final_state = <<state>>
             /\ written = <<>>
             /\ "generate_doc" \notin Range(executed) => invocations = <<>>)
    /\ [][state.status = "error" =>
             UNCHANGED <<state, executed, invocations, written, final_state>>]_vars

\* chunk_files returned status error and the run ended there
C7_Witness ==
    /\ state.status = "error"
    /\ executed = <<"scan_files", "filter_files", "chunk_files">>
    /\ final_state = <<state>>

\* C8: no stage lets an exception reach the pipeline controller; every
\* failure, creating the model client and writing the output included, comes
\* back as status error with a message.
C8_NoExceptionCrossesStage == node # "RAISED"

\* ------------------------------------------------------------------------
\* Properties of the prioritizer
\* ------------------------------------------------------------------------
\* C9: prioritization does not depend on the order of its input: two calls
\* on two orders of the same files return the same sequence, also when two
\* files share a sort key.
C9_OrderIndependent == sort_pc = "done" => sort_out = sort_out2

\* README.md, package.json, src/index.js, src/util.js, lib/helpers.js
Scenario ==
    {"README_md", "package_json", "src_index_js", "src_util_js", "lib_helpers_js"}

\* C10 as stated: the five files of the scenario come out as README.md,
\* package.json, src/index.js, src/util.js, lib/helpers.js.
C10_SrcBeforeLib ==
    (sort_pc = "done" /\ Range(sort_in) = Scenario) =>
        sort_out = <<"README_md", "package_json", "src_index_js", "src_util_js",
                     "lib_helpers_js">>

\* C10 amended: the five files of the scenario, in whatever order they are
\* given, come out as README.md, package.json, lib/helpers.js, src/index.js,
\* src/util.js (module lib sorts before module src).
C10_LibBeforeSrc ==
    (sort_pc = "done" /\ Range(sort_in) = Scenario) =>
        sort_out = <<"README_md", "package_json", "lib_helpers_js", "src_index_js",
                     "src_util_js">>

\* the prioritizer was called on the five files given in the claim's order
C10_Witness ==
    /\ sort_pc = "done"
    /\ sort_in = <<"README_md", "package_json", "src_index_js", "src_util_js",
                   "lib_helpers_js">>

\* ------------------------------------------------------------------------
\* Properties of the prioritized order
\* ------------------------------------------------------------------------
\* the path has a single segment
RootLevel(f) == \A i \in 1..Len(PathOf(f)) : PathOf(f)[i] \notin {"/", "\\"}

\* the characters of the path before its first separator
TopSegment(f) ==
    LET seps == {i \in 1..Len(PathOf(f)) : PathOf(f)[i] \in {"/", "\\"}}
    IN  IF seps = {} THEN PathOf(f)
        ELSE SubSeq(PathOf(f), 1, (CHOOSE i \in seps : \A j \in seps : i <= j) - 1)

\* 1 for a root file named like a readme, 2 for a root manifest, 3 for any
\* other root file, 4 for a file below a directory
PriorityGroup(f) ==
    IF ~RootLevel(f) THEN 4
    ELSE IF StrContains(StrLower(PathOf(f)), README_WORD) THEN 1
    ELSE IF \E n \in config_names : StrLower(n) = StrLower(PathOf(f)) THEN 2
    ELSE 3

PriorityGroupOf == [f \in FileUniverse |-> PriorityGroup(f)]

TopSegmentKeyOf == [f \in FileUniverse |-> Codes(TopSegment(f))]

\* C11: in the prioritized sequence the root readme files come first, then
\* the root manifest files, then the other root files, then the files below
\* a directory; the files of one top-level segment are contiguous and the
\* segments ascend in string order
C11_GroupsThenModulesAscending ==
    sort_pc = "done" =>
        \A i, j \in 1..Len(sort_out) :
            i < j =>
                /\ PriorityGroupOf[sort_out[i]] <= PriorityGroupOf[sort_out[j]]
                /\ PriorityGroupOf[sort_out[i]] = 4 =>
                       \/ TopSegmentKeyOf[sort_out[i]] = TopSegmentKeyOf[sort_out[j]]
                       \/ KeyLess(TopSegmentKeyOf[sort_out[i]],
                                  TopSegmentKeyOf[sort_out[j]])

\* a list given with a lib file between two src files, ahead of a root file
\* and a readme, has been prioritized
C11_Witness ==
    /\ sort_pc = "done"
    /\ Len(sort_in) = 5
    /\ sort_in[1] = "src_util_js"
    /\ sort_in[2] = "lib_helpers_js"
    /\ sort_in[3] = "src_index_js"
    /\ sort_in[4] \in {"main_py", "package_json"}
    /\ sort_in[5] = "README_md"
    /\ sort_out[1] = "README_md"
    /\ sort_out[3] = "lib_helpers_js"

\* the lower-cased last segment of the path
FileNameKey(f) ==
    LET seps == {i \in 1..Len(PathOf(f)) : PathOf(f)[i] \in {"/", "\\"}}
    IN  StrLower(SubSeq(PathOf(f), IF seps = {} THEN 1 ELSE Max(seps) + 1,
                        Len(PathOf(f))))

\* the declared position of the first entry-point token that the name
\* without its extension contains, or one past the last position if it
\* contains none
EntryRank(f) ==
    LET stem == SplitextRoot(FileNameKey(f))
    IN  IF \E k \in 1..Len(entry_patterns) : StrContains(stem, entry_patterns[k])
        THEN CHOOSE k \in 1..Len(entry_patterns) :
                /\ StrContains(stem, entry_patterns[k])
                /\ \A l \in 1..(k - 1) : ~StrContains(stem, entry_patterns[l])
        ELSE Len(entry_patterns) + 1

EntryRankOf == [f \in FileUniverse |-> EntryRank(f)]

FileNameKeyOf == [f \in FileUniverse |-> Codes(FileNameKey(f))]

\* both are remaining root files, or both are files of the same module
SameBucket(f, g) ==
    \/ PriorityGroupOf[f] = 3 /\ PriorityGroupOf[g] = 3
    \/ /\ PriorityGroupOf[f] = 4 /\ PriorityGroupOf[g] = 4
       /\ TopSegmentKeyOf[f] = TopSegmentKeyOf[g]

\* C12: among the remaining root files and within each module, a file whose
\* name without extension contains an entry-point token precedes every file
\* containing none, entry-point files follow the declared position of the
\* first token of the list they contain, and files of equal rank follow
\* their lower-cased filenames
C12_EntryPointsFirst ==
    sort_pc = "done" =>
        \A i, j \in 1..Len(sort_out) :
            (i < j /\ SameBucket(sort_out[i], sort_out[j])) =>
                /\ EntryRankOf[sort_out[i]] <= EntryRankOf[sort_out[j]]
                /\ EntryRankOf[sort_out[i]] = EntryRankOf[sort_out[j]] =>
                       ~KeyLess(FileNameKeyOf[sort_out[j]], FileNameKeyOf[sort_out[i]])

\* a list with two root entry-point files of different tokens and a module
\* holding a two-token name, a one-token name and a name with no token,
\* given in the reverse of their priority, has been prioritized
C12_Witness ==
    /\ sort_pc = "done"
    /\ sort_in = <<"src_util_js", "src_index_js", "src_app_index_js",
                   "app_py", "main_py">>
    /\ sort_out = <<"main_py", "app_py", "src_app_index_js",
                    "src_index_js", "src_util_js">>

\* ------------------------------------------------------------------------
\* Properties of a run's end
\* ------------------------------------------------------------------------
\* C17: the status becomes completed only in a step of save_output, taken
\* from status generated, that writes the final document; a completed run is
\* one whose generate_doc invoked the model once for every chunk, each time
\* with success.
C17_CompletedOnlyAfterSave ==
    /\ [][(state'.status = "completed" /\ state.status # "completed") =>
             /\ node = "save_output"
             /\ state.status = "generated"
             /\ \E n \in 1..Len(written') :
                   /\ n > Len(written)
                   /\ written'[n] = [file |-> "final",
                                     content |-> state.current_document]]_vars
    /\ [](state.status = "completed" =>
             /\ executed = Stages
             /\ written # <<>>
             /\ written[1] = [file |-> "final", content |-> state.current_document]
             /\ state.current_document # ""
             /\ Len(invocations) = Len(state.chunks)
             /\ \A j \in 1..Len(invocations) :
                   /\ invocations[j].ok
                   /\ invocations[j].messages.chunk_id = j - 1
             /\ state.processed_chunks = Len(state.chunks))

\* a run over two chunks ended completed with the final document written
C17_Witness ==
    /\ state.status = "completed"
    /\ Len(state.chunks) = 2
    /\ Len(invocations) = 2
    /\ written[1] = [file |-> "final", content |-> "docA"]

ExtensionOf == [f \in FileUniverse |-> get_file_extension(PathOf(f))]

\* the repository path is a directory none of whose files has an included
\* extension
NoIncludedFile ==
    /\ fs.exists
    /\ fs.is_dir
    /\ \A n \in 1..Len(fs.files) : ExtensionOf[fs.files[n]] \notin config.include_extensions

\* C18: a run on an existing directory without any file of an included
\* extension is over exactly when the status is error, which scan_files or
\* filter_files has set; until then it is at one of these two stages; the
\* status never becomes chunked or generated and no later stage is entered.
C18_NoFilesEndsInError ==
    NoIncludedFile =>
        /\ state.status \in {"initialized", "scanned", "error"}
        /\ node \in {"scan_files", "filter_files", "END"}
        /\ Len(executed) <= 2
        /\ executed = SubSeq(<<"scan_files", "filter_files">>, 1, Len(executed))
        /\ state.status = "error" <=> node = "END"
        /\ node = "END" => final_state = <<state>>

\* a run on a directory holding only files of excluded extensions has ended
\* with the error of filter_files
C18_Witness ==
    /\ NoIncludedFile
    /\ Len(fs.files) = 2
    /\ node = "END"
    /\ state.status = "error"
    /\ state.error = ErrorMessage("no files found", 0)
    /\ executed = <<"scan_files", "filter_files">>

\* ------------------------------------------------------------------------
\* Properties of the intermediate history
\* ------------------------------------------------------------------------
\* a is b or b with entries removed from its end
IsPrefix(a, b) == Len(a) <= Len(b) /\ a = SubSeq(b, 1, Len(a))

\* C19: a step leaves the history as it is or appends one entry to it; the
\* history holds the texts of the successful invocations in order; once
\* generate_doc has succeeded on N chunks the history has N entries, entry i
\* being the text returned for chunk i, and its last entry is
\* current_document.
C19_HistoryAppendOnly ==
    /\ [][/\ IsPrefix(state.intermediate_documents, state'.intermediate_documents)
          /\ Len(state'.intermediate_documents)
                <= Len(state.intermediate_documents) + 1]_vars
    /\ [](/\ Len(state.intermediate_documents)
                = Cardinality({j \in 1..Len(invocations) : invocations[j].ok})
          /\ \A i \in 1..Len(state.intermediate_documents) :
                /\ invocations[i].ok
                /\ state.intermediate_documents[i] = invocations[i].text)
    /\ [](state.status \in {"generated", "completed"} =>
             /\ Len(state.intermediate_documents) = Len(state.chunks)
             /\ \A i \in 1..Len(state.chunks) :
                   /\ invocations[i].messages.chunk_id = state.chunks[i].chunk_id
                   /\ state.intermediate_documents[i] = invocations[i].text
             /\ state.intermediate_documents[Len(state.chunks)]
                   = state.current_document)

\* generate_doc has succeeded on three chunks with a different text for the
\* second
C19_Witness ==
    /\ state.status = "generated"
    /\ Len(state.chunks) = 3
    /\ state.intermediate_documents = <<"docA", "", "docA">>
    /\ state.current_document = "docA"

\* ------------------------------------------------------------------------
\* Properties of the rendered text
\* ------------------------------------------------------------------------
\* a file as a path header line, a line of 40 dashes, the raw content and
\* the same line of dashes
Rendered(f) ==
    "File path: " \o FileTable[f].text \o "\n"
        \o Repeat("-", 40) \o "\n"
        \o FileTable[f].content \o "\n"
        \o Repeat("-", 40)

\* the texts that put a line of 60 '=' between the last line of one file and
\* the header line of the next, with or without blank lines around it
EqualsSeparators ==
    {"\n\n" \o Repeat("=", 60) \o "\n\n",
     "\n\n" \o Repeat("=", 60) \o "\n",
     "\n" \o Repeat("=", 60) \o "\n\n",
     "\n" \o Repeat("=", 60) \o "\n"}

\* C20: the combined text of a chunk is its files, each rendered as header
\* line, 40 dashes, content, 40 dashes, with a line of 60 '=' between every
\* two consecutive files; what stands before the first file is left open.
C20_FilesSeparatedByEqualsLine ==
    Chunked =>
        \A k \in 1..Len(state.chunks) :
            \E sep \in EqualsSeparators :
                \E lead \in {"", sep, "\n\n" \o Repeat("=", 60)} :
                    state.chunks[k].combined_content =
                        lead \o StrJoin(sep, [n \in 1..Len(state.chunks[k].files) |->
                                                 Rendered(state.chunks[k].files[n])])

\* ------------------------------------------------------------------------
\* Properties of the stages' input errors
\* ------------------------------------------------------------------------
\* C21: chunk_files given an empty filtered_files sets status error with a
\* message and leaves chunks and total_chunks as they were; given a non-empty
\* list it sets status chunked with at least one chunk, none without files.
C21_ChunkFilesEmptyInput ==
    /\ [][node = "chunk_files" =>
             IF state.filtered_files = <<>>
             THEN /\ state'.status = "error"
                  /\ state'.error # None
                  /\ state'.chunks = state.chunks
                  /\ state'.total_chunks = state.total_chunks
             ELSE /\ state'.status = "chunked"
                  /\ state'.chunks # <<>>
                  /\ \A k \in 1..Len(state'.chunks) : state'.chunks[k].files # <<>>]_vars
    /\ \* called again on a state that holds chunks, with the selection emptied
       [](LET st == [state EXCEPT !.filtered_files = <<>>]
          IN  chunk_files(st, config) =
                 [st EXCEPT !.status = "error",
                            !.error = ErrorMessage("no filtered files", 0)])

\* chunk_files was given the empty selection of a scan that found files and
\* returned status error
C21_Witness ==
    /\ state.status = "error"
    /\ executed = <<"scan_files", "filter_files", "chunk_files">>
    /\ state.all_files # <<>>
    /\ state.filtered_files = <<>>
    /\ state.error = ErrorMessage("no filtered files", 0)
    /\ state.chunks = <<>>

\* C22: scan_files on a path that does not exist, or that is no directory,
\* returns status error with the message of that case and leaves all_files
\* and total_files at their initial values.
C22_ScanInvalidPath ==
    (executed # <<>> /\ (~fs.exists \/ ~fs.is_dir)) =>
        /\ state.status = "error"
        /\ state.error = IF ~fs.exists
                         THEN ErrorMessage("repo path does not exist", 0)
                         ELSE ErrorMessage("path is not a directory", 0)
        /\ state.all_files = create_initial_state.all_files
        /\ state.total_files = create_initial_state.total_files
        /\ executed = <<"scan_files">>

\* scan_files was run on a path that exists and is no directory
C22_Witness ==
    /\ fs.exists
    /\ ~fs.is_dir
    /\ executed = <<"scan_files">>
    /\ state.status = "error"
    /\ node = "END"

\* C23: filter_files given an empty all_files returns status error with the
\* message "no files found" and leaves filtered_files and total_tokens as
\* they were.
C23_FilterEmptyInput ==
    /\ [][(node = "filter_files" /\ state.all_files = <<>>) =>
             /\ state'.status = "error"
             /\ state'.error = ErrorMessage("no files found", 0)
             /\ state'.filtered_files = state.filtered_files
             /\ state'.total_tokens = state.total_tokens]_vars
    /\ \* called again on a state that holds a selection, with all_files emptied
       [](LET st == [state EXCEPT !.all_files = <<>>]
          IN  filter_files(st, config) =
                 [st EXCEPT !.status = "error",
                            !.error = ErrorMessage("no files found", 0)])

\* filter_files was given the empty result of the scan of an empty directory
C23_Witness ==
    /\ fs.is_dir
    /\ fs.files = <<>>
    /\ executed = <<"scan_files", "filter_files">>
    /\ state.status = "error"
    /\ state.error = ErrorMessage("no files found", 0)

\* ------------------------------------------------------------------------
\* Properties of a failed run's state
\* ------------------------------------------------------------------------
\* this step ends the run in error
StepToError == state'.status = "error" /\ state.status # "error"

\* the state the stage about to fail was entered with: generate_doc is
\* entered with the history create_initial_state made, the other stages are
\* a single step
StateAtStageEntry ==
    IF node = "generate_doc"
    THEN [state EXCEPT !.intermediate_documents =
                           create_initial_state.intermediate_documents]
    ELSE state

\* C24 as stated: the stage that ends the run in error changes only status
\* and error of the state it was entered with.
C24_FailingStageChangesOnlyStatusAndError ==
    [][StepToError =>
          state' = [StateAtStageEntry EXCEPT !.status = "error",
                                             !.error = state'.error]]_vars

\* once scan_files, filter_files and chunk_files have run, a step leaves the
\* fields each of them populated as they are
EarlierFieldsKept ==
    /\ Len(executed) >= 1 =>
          /\ state'.all_files = state.all_files
          /\ state'.total_files = state.total_files
    /\ Len(executed) >= 2 =>
          /\ state'.filtered_files = state.filtered_files
          /\ state'.total_tokens = state.total_tokens
    /\ Len(executed) >= 3 =>
          /\ state'.chunks = state.chunks
          /\ state'.total_chunks = state.total_chunks

\* C24, amended: the fields all_files, total_files, filtered_files,
\* total_tokens, chunks and total_chunks keep what the stage that populated
\* them wrote, through every later step and so in a run that ended in
\* error; the step that fails changes only status and error, and
\* generate_doc before it fails changes nothing but intermediate_documents,
\* to which it appends.
C24_FailureKeepsEarlierFields ==
    /\ [][EarlierFieldsKept]_vars
    /\ [][StepToError =>
             state' = [state EXCEPT !.status = "error", !.error = state'.error]]_vars
    /\ [][(node = "generate_doc" /\ node' = "generate_doc") =>
             /\ state' = [state EXCEPT !.intermediate_documents =
                                           state'.intermediate_documents]
             /\ IsPrefix(state.intermediate_documents,
                         state'.intermediate_documents)]_vars

\* generate_doc failed at the second of two chunks: the earlier fields are
\* populated and the history holds the first chunk's text
C24_Witness ==
    /\ state.status = "error"
    /\ executed = <<"scan_files", "filter_files", "chunk_files", "generate_doc">>
    /\ state.total_files = 3
    /\ state.total_tokens > 0
    /\ state.total_chunks = 2
    /\ Len(state.intermediate_documents) = 1

\* ------------------------------------------------------------------------
\* Properties of the selection
\* ------------------------------------------------------------------------
\* the directories on the file's path: the segments that a "/" follows
DirectoriesOn(f) ==
    {SubSeq(PathOf(f), i, j) :
        <<i, j>> \in {p \in (1..Len(PathOf(f))) \X (1..Len(PathOf(f))) :
                        /\ p[1] <= p[2]
                        /\ p[2] < Len(PathOf(f))
                        /\ PathOf(f)[p[2] + 1] = "/"
                        /\ (p[1] = 1 \/ PathOf(f)[p[1] - 1] = "/")
                        /\ \A n \in p[1]..p[2] : PathOf(f)[n] # "/"}}

DirectoriesOnOf == [f \in FileUniverse |-> DirectoriesOn(f)]

\* some directory on the file's path is excluded by the configuration
Excluded(f, cfg) == DirectoriesOnOf[f] \cap cfg.exclude_dirs # {}

\* filter_files has returned a selection in this run
Selected == Len(executed) >= 2 /\ ~(Len(executed) = 2 /\ state.status = "error")

\* C25: the selection holds at most max_files files: the files of all_files
\* that no exclude pattern matches, cut to the first max_files of them in
\* all_files order, and only then put in ascending path order; total_tokens
\* is the sum of their token_count.
C25_TruncateThenSort ==
    Selected =>
        LET survivors == SelectSeq(state.all_files,
                                   LAMBDA f : ~Excluded(f, config))
            retained == SubSeq(survivors, 1,
                               IF Len(survivors) > config.max_files
                               THEN config.max_files ELSE Len(survivors))
        IN  /\ Len(state.filtered_files) <= config.max_files
            /\ Len(state.filtered_files) = Len(retained)
            /\ Range(state.filtered_files) = Range(retained)
            /\ \A i, j \in 1..Len(state.filtered_files) :
                  i < j => KeyLess(PathKeyOf[state.filtered_files[i]],
                                   PathKeyOf[state.filtered_files[j]])
            /\ state.total_tokens = SumTokens(state.filtered_files)

\* three files survive with max_files 2: the first two in scan order are
\* kept, though main.py, the third, has the least path
C25_Witness ==
    /\ state.status = "filtered"
    /\ config.max_files = 2
    /\ state.all_files = <<"src_util_js", "src_index_js", "main_py">>
    /\ state.filtered_files = <<"src_index_js", "src_util_js">>
    /\ state.total_tokens = 170

\* ------------------------------------------------------------------------
\* The prioritized order as a rearrangement
\* ------------------------------------------------------------------------
\* how often x occurs in the list
Occurrences(s, x) == Cardinality({i \in 1..Len(s) : s[i] = x})

\* C27: the prioritized sequence is a permutation of the list given: every
\* file occurs in it as often as in the input (once), and nothing else
\* occurs.
C27_SortIsPermutation ==
    sort_pc = "done" =>
        /\ Len(sort_out) = Len(sort_in)
        /\ \A f \in FileUniverse : Occurrences(sort_out, f) = Occurrences(sort_in, f)

\* a list holding a readme, a manifest, an entry file of the root and a
\* module file whose name contains two entry-point tokens has been
\* prioritized
C27_Witness ==
    /\ sort_pc = "done"
    /\ Range(sort_in) = {"README_md", "package_json", "main_py",
                         "src_app_index_js", "lib_helpers_js"}
    /\ sort_out # sort_in
    /\ Len(sort_out) = 5

\* ------------------------------------------------------------------------
\* Properties of generate_doc's outcome
\* ------------------------------------------------------------------------
\* generate_doc failed at chunk k of this run
FailedAtChunk(k) ==
    /\ state.status = "error"
    /\ Len(invocations) = k
    /\ ~invocations[k].ok

\* C28: when generate_doc has failed at chunk k > 1, current_document and
\* processed_chunks are what they were before the stage, the empty string
\* and 0, and intermediate_documents holds k-1 entries, the texts of the
\* chunks before k; the chunk list and its counters are as chunk_files left
\* them.
C28_FailureLeavesDocumentUntouched ==
    \A k \in 2..Len(invocations) :
        FailedAtChunk(k) =>
            /\ state.current_document = create_initial_state.current_document
            /\ state.processed_chunks = create_initial_state.processed_chunks
            /\ Len(state.intermediate_documents) = k - 1
            /\ \A j \in 1..(k - 1) :
                  state.intermediate_documents[j] = invocations[j].text
            /\ state.current_chunk_index = 0
            /\ state.total_chunks = Len(state.chunks)
            /\ k <= Len(state.chunks)

\* generate_doc failed at the third of three chunks after two texts were
\* returned
C28_Witness ==
    /\ FailedAtChunk(3)
    /\ state.intermediate_documents = <<"docA", "">>
    /\ state.current_document = ""
    /\ state.processed_chunks = 0

\* the model has returned a text for every chunk, the empty string for the
\* last one, and the loop of generate_doc is over
EmptyLastDocument ==
    /\ state.chunks # <<>>
    /\ Len(invocations) = Len(state.chunks)
    /\ \A j \in 1..Len(invocations) : invocations[j].ok
    /\ invocations[Len(invocations)].text = ""
    /\ gen.pc = "idle"

\* C29: when the model returns the empty string for the last chunk,
\* generate_doc ends with status generated; save_output then sets status
\* error and writes no file, the run ends there and is never completed.
C29_EmptyDocumentFailsAtSave ==
    /\ [][(/\ node = "generate_doc"
           /\ gen.pc = "loop"
           /\ gen.i = Len(state.chunks)
           /\ gen.current_document = "") =>
             /\ state'.status = "generated"
             /\ node' = "save_output"]_vars
    /\ [](EmptyLastDocument =>
             /\ written = <<>>
             /\ state.processed_chunks = Len(state.chunks)
             /\ \/ /\ node = "save_output"
                   /\ state.status = "generated"
                \/ /\ node = "END"
                   /\ state.status = "error"
                   /\ state.error = ErrorMessage("no document to save", 0)
                   /\ executed = Stages
                   /\ final_state = <<state>>)

\* the model returned a text for the first chunk and the empty string for
\* the second; the run ended in error at save_output
C29_Witness ==
    /\ EmptyLastDocument
    /\ Len(state.chunks) = 2
    /\ invocations[1].text = "docA"
    /\ node = "END"
    /\ state.status = "error"
    /\ executed = Stages

\* the scan found files, and each of them is excluded or max_files is 0
NothingSelectable ==
    /\ state.all_files # <<>>
    /\ \/ config.max_files = 0
       \/ \A n \in 1..Len(state.all_files) : Excluded(state.all_files[n], config)

\* C30: when all_files is not empty and every file of it matches an exclude
\* pattern, or max_files is 0, filter_files returns status filtered with an
\* empty filtered_files and total_tokens 0 and no error; the run then ends
\* in the error that chunk_files sets.
C30_EmptySelectionFailsAtChunk ==
    /\ [][(node = "filter_files" /\ NothingSelectable) =>
             /\ state'.status = "filtered"
             /\ state'.error = None
             /\ state'.filtered_files = <<>>
             /\ state'.total_tokens = 0
             /\ node' = "chunk_files"]_vars
    /\ [](NothingSelectable =>
             /\ state.status \in {"scanned", "filtered", "error"}
             /\ state.status = "error" <=>
                   executed = <<"scan_files", "filter_files", "chunk_files">>
             /\ state.status = "error" =>
                   state.error = ErrorMessage("no filtered files", 0))

\* every file the scan found lies in an excluded directory; filter_files
\* returned status filtered and chunk_files then ended the run in error
C30_Witness ==
    /\ NothingSelectable
    /\ config.max_files > 0
    /\ Len(state.all_files) = 2
    /\ state.status = "error"
    /\ state.filtered_files = <<>>
    /\ state.total_tokens = 0
    /\ executed = <<"scan_files", "filter_files", "chunk_files">>

\* C31: in every run that ends with status completed, error is None, chunks
\* is not empty, processed_chunks = total_chunks = len(chunks) =
\* len(intermediate_documents), and current_document is not empty and is the
\* last of intermediate_documents.
C31_CompletedRunIsConsistent ==
    state.status = "completed" =>
        /\ node = "END"
        /\ final_state = <<state>>
        /\ state.error = None
        /\ state.chunks # <<>>
        /\ state.processed_chunks = state.total_chunks
        /\ state.total_chunks = Len(state.chunks)
        /\ Len(state.chunks) = Len(state.intermediate_documents)
        /\ state.current_document # ""
        /\ state.current_document =
              state.intermediate_documents[Len(state.intermediate_documents)]

\* a run over two chunks is completed; the model returned the empty string
\* for the first chunk and a text for the second
C31_Witness ==
    /\ state.status = "completed"
    /\ node = "END"
    /\ state.total_chunks = 2
    /\ state.processed_chunks = 2
    /\ state.intermediate_documents = <<"", "docA">>
    /\ state.current_document = "docA"
    /\ state.error = None
====
